---- MODULE Spec2Model ----
(***************************************************************************)
(* Model of src/src/index.tsx: the server component FarcasterEmbed and its *)
(* resolver getCast.  Every call of FarcasterEmbed is an async function:   *)
(* it runs synchronously up to the fetch, and is resumed when the fetch    *)
(* settles, when the body has been read, and when getCast's promise        *)
(* settles.  Several calls may be in flight; their steps interleave.       *)
(*                                                                         *)
(* JavaScript values: a string is a sequence of one-character strings; an  *)
(* optional value (a property that may be undefined) is the empty sequence *)
(* None or the one-element sequence Some(v).                               *)
(*                                                                         *)
(* Fields of a cast that no property below reads (text, timestamp, embeds, *)
(* tags, author.pfp, author.fid) are taken as present and are not carried. *)
(***************************************************************************)
EXTENDS Integers, Sequences, FiniteSets, TLC

VARIABLES pc, props, username, hash, fetches, request, response,
          promise, view, output, error

vars == <<pc, props, username, hash, fetches, request, response,
          promise, view, output, error>>

------------------------------------------------------------------------------
(* Bounds *)

NumCalls == 2
MaxCasts == 2

Calls == 1..NumCalls

------------------------------------------------------------------------------
(* JavaScript values *)

None == <<>>
Some(v) == <<v>>

Slash == "/"

\* `!x` is false for a string exactly when it is defined and non-empty
Truthy(opt) == opt # None /\ opt[1] # <<>>

\* `n ? a : b` on an optional number: undefined and 0 are falsy
TruthyNum(opt) == opt # None /\ opt[1] # 0

RECURSIVE IndexOfSlash(_, _)
IndexOfSlash(s, i) ==
  IF i > Len(s) THEN 0
  ELSE IF s[i] = Slash THEN i
  ELSE IndexOfSlash(s, i + 1)

\* String.prototype.split("/"): the segments between the separators; the
\* empty string gives one empty segment
RECURSIVE Split(_)
Split(s) ==
  LET i == IndexOfSlash(s, 1) IN
  IF i = 0 THEN <<s>>
  ELSE <<SubSeq(s, 1, i - 1)>> \o Split(SubSeq(s, i + 1, Len(s)))

\* a[i] with the zero-based index of the source: undefined past the end
At(a, i) == IF i + 1 <= Len(a) THEN Some(a[i + 1]) ELSE None

\* Number.prototype.toLocaleString("en-US"): groups of three digits
RECURSIVE toLocaleString(_)
toLocaleString(n) ==
  IF n < 1000 THEN <<n>>
  ELSE Append(toLocaleString(n \div 1000), n % 1000)

------------------------------------------------------------------------------
(* Constants of the program *)

Limit == 5

RootEmbed == "root-embed"

FetchErrorMsg == "Unable to fetch cast."

InvalidInputMsg ==
  "You must provide a Warpcast URL or username and hash to embed a cast."

\* a TypeError thrown outside getCast's try block (no message of the program)
TypeError == "TypeError"

NoError == ""

\* "https://warpcast.com/"
WarpcastBase ==
  <<"h","t","t","p","s",":","/","/",
    "w","a","r","p","c","a","s","t",".","c","o","m","/">>

------------------------------------------------------------------------------
(* Inputs: the properties a caller passes and the provider's responses *)

Alice == <<"a","l">>
Bob == <<"b","o">>
HashPrefix == <<"0","x","1">>
AliceHash == <<"0","x","1","2">>
BobHash == <<"0","x","9">>

Handles == {Alice, Bob}

CanonicalUrl(h, p) == WarpcastBase \o h \o <<Slash>> \o p

\* canonical URLs, and URLs that lack a part, carry an empty part, carry an
\* extra segment, or are no Warpcast URL at all
Urls ==
  {CanonicalUrl(h, HashPrefix) : h \in Handles}
    \cup {CanonicalUrl(Alice, HashPrefix) \o <<Slash, "r">>,
          WarpcastBase \o Alice \o <<Slash>>,
          WarpcastBase \o Alice,
          WarpcastBase \o <<Slash>> \o HashPrefix,
          WarpcastBase,
          Alice \o <<Slash>> \o HashPrefix,
          <<>>}

Props ==
  [url : {None} \cup {Some(u) : u \in Urls},
   username : {None, Some(<<>>), Some(Bob)},
   hash : {None, Some(<<>>), Some(HashPrefix)}]

NoProps == [url |-> None, username |-> None, hash |-> None]

CastTypes == {RootEmbed, "cast"}

Idents == {[username |-> Alice, hash |-> AliceHash],
           [username |-> Bob, hash |-> BobHash]}

\* the optional counters of a cast, each present or absent
Counters ==
  [replies : {None, Some([count |-> 3])},
   reactions : {None, Some([count |-> 1200])},
   recasts : {None, Some([count |-> 7])},
   watches : {None, Some([count |-> 0])},
   combinedRecastCount : {None, Some(0), Some(12)}]

AllCounters ==
  [replies |-> Some([count |-> 3]), reactions |-> Some([count |-> 1200]),
   recasts |-> Some([count |-> 7]), watches |-> Some([count |-> 0]),
   combinedRecastCount |-> Some(12)]

Cast(type, id, k) ==
  [castType |-> type,
   author |-> [username |-> id.username],
   hash |-> id.hash,
   replies |-> k.replies,
   reactions |-> k.reactions,
   recasts |-> k.recasts,
   watches |-> k.watches,
   combinedRecastCount |-> k.combinedRecastCount]

\* the cast lists of at most MaxCasts entries whose casts carry the counters k
CastLists(K) ==
  UNION {{[i \in 1..n |-> Cast(t[i], id[i], k)] :
            t \in [1..n -> CastTypes], id \in [1..n -> Idents], k \in K} :
         n \in 0..MaxCasts}

\* a settled fetch: the network call rejects, or it resolves and the body is
\* unparseable (json = None) or parses to a value whose result and casts may
\* be missing
NetworkReject == [net |-> "reject", json |-> None]
Unparseable == [net |-> "ok", json |-> None]
NoResult == [net |-> "ok", json |-> Some([result |-> None])]
NoCasts == [net |-> "ok", json |-> Some([result |-> Some([casts |-> None])])]
Body(l) ==
  [net |-> "ok", json |-> Some([result |-> Some([casts |-> Some(l)])])]

Responses ==
  {NetworkReject, Unparseable, NoResult, NoCasts}
    \cup {Body(l) : l \in CastLists(Counters)}

------------------------------------------------------------------------------
(* getCast, lines 28-44 *)

Pending == [state |-> "pending", value |-> None, reason |-> NoError]
Fulfilled(v) == [state |-> "fulfilled", value |-> v, reason |-> NoError]
Rejected(m) == [state |-> "rejected", value |-> None, reason |-> m]

\* variant: the root-embed wrapper is never skipped
SelectCastFirst(json) ==
  IF json = None THEN [threw |-> TRUE, value |-> None]
  ELSE IF json[1].result = None THEN [threw |-> TRUE, value |-> None]
  ELSE IF json[1].result[1].casts = None THEN [threw |-> TRUE, value |-> None]
  ELSE LET casts == json[1].result[1].casts[1] IN
       IF Len(casts) = 0 THEN [threw |-> TRUE, value |-> None]
       ELSE [threw |-> FALSE, value |-> <<casts[1]>>]

\* variant: the error that was caught is thrown again as it is
getCastRethrow(json) ==
  LET thrown == \/ json = None
                \/ json[1].result = None
                \/ json[1].result[1].casts = None
                \/ json[1].result[1].casts[1] = <<>>
      casts == json[1].result[1].casts[1]
  IN IF thrown THEN Rejected(IF json = None THEN "SyntaxError" ELSE TypeError)
     ELSE Fulfilled(IF casts[1].castType = RootEmbed
                      THEN (IF Len(casts) >= 2 THEN <<casts[2]>> ELSE <<>>)
                      ELSE <<casts[1]>>)

Threw == [threw |-> TRUE, value |-> None]
Returned(v) == [threw |-> FALSE, value |-> v]

\* lines 33-40 inside the try block: a body that cannot be parsed, a missing
\* result or casts, and an empty list (castType of undefined) all throw; a
\* second entry that does not exist is returned as undefined
SelectCast(json) ==
  IF json = None THEN Threw
  ELSE IF json[1].result = None THEN Threw
  ELSE IF json[1].result[1].casts = None THEN Threw
  ELSE LET casts == json[1].result[1].casts[1] IN
       IF At(casts, 0) = None THEN Threw
       ELSE IF casts[1].castType = RootEmbed THEN Returned(At(casts, 1))
       ELSE Returned(At(casts, 0))

\* lines 41-43: whatever was thrown becomes the one generic error
getCast(json) ==
  LET sel == SelectCast(json) IN
  IF sel.threw THEN Rejected(FetchErrorMsg) ELSE Fulfilled(sel.value)

------------------------------------------------------------------------------
(* FarcasterEmbed, lines 55-190 *)

\* variant: a supplied pair is kept and the url is parsed only without one
NormalizePairFirst(p) ==
  IF Truthy(p.username) /\ Truthy(p.hash)
    THEN [username |-> p.username, hash |-> p.hash]
    ELSE IF Truthy(p.url)
      THEN [username |-> IF Len(Split(p.url[1])) >= 4
                           THEN <<Split(p.url[1])[4]>> ELSE <<>>,
            hash |-> IF Len(Split(p.url[1])) >= 5
                       THEN <<Split(p.url[1])[5]>> ELSE <<>>]
      ELSE [username |-> p.username, hash |-> p.hash]

\* lines 57-61: a truthy url overrides username and hash
Normalize(p) ==
  IF Truthy(p.url)
    THEN LET urlParts == Split(p.url[1]) IN
         [username |-> At(urlParts, 3), hash |-> At(urlParts, 4)]
    ELSE [username |-> p.username, hash |-> p.hash]

\* variant: && in place of ||
InvalidInputAnd(n) == ~Truthy(n.username) /\ ~Truthy(n.hash)

\* line 63
InvalidInput(n) == ~Truthy(n.username) \/ ~Truthy(n.hash)

\* variant: the hash and the handle change places
warpcastUrlSwapped(cast) ==
  WarpcastBase \o cast.hash \o <<Slash>> \o cast.author.username

\* line 80
warpcastUrl(cast) == WarpcastBase \o cast.author.username \o <<Slash>> \o cast.hash

\* `x && x.count`
CountOf(opt) == IF opt = None THEN None ELSE Some(opt[1].count)

\* line 83 throws when combinedRecastCount is falsy and recasts is missing
RecastsThrows(cast) ==
  ~TruthyNum(cast.combinedRecastCount) /\ cast.recasts = None

\* variant: a combinedRecastCount of 0 is used as well
RecastsPresent(cast) ==
  IF cast.combinedRecastCount # None
    THEN cast.combinedRecastCount
    ELSE CountOf(cast.recasts)

\* line 83
Recasts(cast) ==
  IF TruthyNum(cast.combinedRecastCount)
    THEN cast.combinedRecastCount
    ELSE CountOf(cast.recasts)

\* lines 80-84
Derive(cast) ==
  [warpcastUrl |-> warpcastUrl(cast),
   replies |-> CountOf(cast.replies),
   likes |-> CountOf(cast.reactions),
   recasts |-> Recasts(cast),
   watches |-> CountOf(cast.watches)]

\* lines 161, 167, 173, 179: toLocaleString of undefined throws
RenderThrows(v) ==
  v.replies = None \/ v.recasts = None \/ v.likes = None \/ v.watches = None

\* lines 156-188: the four counts and the links to the cast
Render(v) ==
  [href |-> v.warpcastUrl,
   replies |-> toLocaleString(v.replies[1]),
   recasts |-> toLocaleString(v.recasts[1]),
   likes |-> toLocaleString(v.likes[1]),
   watches |-> toLocaleString(v.watches[1])]

------------------------------------------------------------------------------
(* State machine *)

Init ==
  /\ pc = [c \in Calls |-> "idle"]
  /\ props = [c \in Calls |-> NoProps]
  /\ username = [c \in Calls |-> None]
  /\ hash = [c \in Calls |-> None]
  /\ fetches = [c \in Calls |-> 0]
  /\ request = [c \in Calls |-> None]
  /\ response = [c \in Calls |-> None]
  /\ promise = [c \in Calls |-> Pending]
  /\ view = [c \in Calls |-> None]
  /\ output = [c \in Calls |-> None]
  /\ error = [c \in Calls |-> NoError]

\* lines 55-67 and 28-32: the call runs up to the fetch it awaits
Invoke(c, P) ==
  /\ pc[c] = "idle"
  /\ \E p \in P :
       LET n == Normalize(p) IN
       /\ props' = [props EXCEPT ![c] = p]
       /\ username' = [username EXCEPT ![c] = n.username]
       /\ hash' = [hash EXCEPT ![c] = n.hash]
       /\ IF InvalidInput(n)
            THEN /\ pc' = [pc EXCEPT ![c] = "failed"]
                 /\ error' = [error EXCEPT ![c] = InvalidInputMsg]
                 /\ UNCHANGED <<fetches, request>>
            ELSE /\ pc' = [pc EXCEPT ![c] = "awaitFetch"]
                 /\ fetches' = [fetches EXCEPT ![c] = @ + 1]
                 /\ request' = [request EXCEPT ![c] =
                      Some([castHashPrefix |-> n.hash,
                            username |-> n.username,
                            limit |-> Limit])]
                 /\ UNCHANGED error
  /\ UNCHANGED <<response, promise, view, output>>

\* variant: a rejected fetch is issued once more
CatchFetchRetry(c) ==
  IF fetches[c] < 2
    THEN /\ fetches' = [fetches EXCEPT ![c] = @ + 1]
         /\ UNCHANGED <<promise, pc>>
    ELSE /\ promise' = [promise EXCEPT ![c] = Rejected(FetchErrorMsg)]
         /\ pc' = [pc EXCEPT ![c] = "awaitGetCast"]
         /\ UNCHANGED fetches

\* lines 41-43 for a rejected fetch: the error is replaced and thrown, the
\* fetch is not issued again
CatchFetch(c) ==
  /\ promise' = [promise EXCEPT ![c] = Rejected(FetchErrorMsg)]
  /\ pc' = [pc EXCEPT ![c] = "awaitGetCast"]
  /\ UNCHANGED fetches

\* line 30 settles: a rejection is caught, otherwise line 33 starts reading
\* the body
FetchSettles(c, R) ==
  /\ pc[c] = "awaitFetch"
  /\ \E r \in R :
       /\ response' = [response EXCEPT ![c] = Some(r)]
       /\ IF r.net = "reject"
            THEN CatchFetch(c)
            ELSE /\ pc' = [pc EXCEPT ![c] = "awaitJson"]
                 /\ UNCHANGED <<promise, fetches>>
  /\ UNCHANGED <<props, username, hash, request, view, output, error>>

\* variant: the body of the first call is kept and handed to every call
AwaitedJsonShared(c) ==
  IF response[1] # None /\ response[1][1].net = "ok"
    THEN response[1][1].json
    ELSE response[c][1].json

\* the body that the call's own `await res.json()` yields
AwaitedJson(c) == response[c][1].json

\* line 33 settles and lines 35-43 run: getCast returns or throws
JsonSettles(c) ==
  /\ pc[c] = "awaitJson"
  /\ promise' = [promise EXCEPT ![c] = getCast(AwaitedJson(c))]
  /\ pc' = [pc EXCEPT ![c] = "awaitGetCast"]
  /\ UNCHANGED <<props, username, hash, fetches, request, response, view,
                 output, error>>

\* line 67 resumes: the rejection propagates, or lines 68-190 derive the
\* fields and build the markup
Resume(c) ==
  /\ pc[c] = "awaitGetCast"
  /\ LET cast == promise[c].value IN
     IF promise[c].state = "rejected"
       THEN /\ pc' = [pc EXCEPT ![c] = "failed"]
            /\ error' = [error EXCEPT ![c] = promise[c].reason]
            /\ UNCHANGED <<view, output>>
     ELSE IF cast = None \/ RecastsThrows(cast[1])
       THEN /\ pc' = [pc EXCEPT ![c] = "failed"]
            /\ error' = [error EXCEPT ![c] = TypeError]
            /\ UNCHANGED <<view, output>>
     ELSE IF RenderThrows(Derive(cast[1]))
       THEN /\ pc' = [pc EXCEPT ![c] = "failed"]
            /\ error' = [error EXCEPT ![c] = TypeError]
            /\ view' = [view EXCEPT ![c] = Some(Derive(cast[1]))]
            /\ UNCHANGED output
     ELSE /\ pc' = [pc EXCEPT ![c] = "done"]
          /\ view' = [view EXCEPT ![c] = Some(Derive(cast[1]))]
          /\ output' = [output EXCEPT ![c] = Some(Render(Derive(cast[1])))]
          /\ UNCHANGED error
  /\ UNCHANGED <<props, username, hash, fetches, request, response, promise>>

\* one render, with the full range of inputs
Next ==
  \/ Invoke(1, Props)
  \/ FetchSettles(1, Responses)
  \/ JsonSettles(1)
  \/ Resume(1)

Spec == Init /\ [][Next]_vars

\* several renders in flight at once (many embeds on one page)
ConcProps ==
  {[url |-> Some(CanonicalUrl(Alice, HashPrefix)), username |-> None,
    hash |-> None],
   [url |-> None, username |-> Some(Bob), hash |-> Some(BobHash)],
   NoProps}

ConcResponses ==
  {NetworkReject,
   Body(<<Cast("cast", [username |-> Alice, hash |-> AliceHash], AllCounters)>>),
   Body(<<Cast(RootEmbed, [username |-> Alice, hash |-> AliceHash], AllCounters),
          Cast("cast", [username |-> Bob, hash |-> BobHash], AllCounters)>>),
   Body(<<Cast(RootEmbed, [username |-> Bob, hash |-> BobHash], AllCounters)>>)}

NextConc ==
  \E c \in Calls :
    \/ Invoke(c, ConcProps)
    \/ FetchSettles(c, ConcResponses)
    \/ JsonSettles(c)
    \/ Resume(c)

SpecConc == Init /\ [][NextConc]_vars

------------------------------------------------------------------------------
(* Vocabulary of the properties *)

Ended(c) == pc[c] \in {"done", "failed"}

Settled(c) == response[c] # None

\* the response carries a cast list
HasList(r) ==
  /\ r.net = "ok"
  /\ r.json # None
  /\ r.json[1].result # None
  /\ r.json[1].result[1].casts # None

ListOf(r) == r.json[1].result[1].casts[1]

IsPrefix(a, b) == Len(a) <= Len(b) /\ SubSeq(b, 1, Len(a)) = a

\* segment i (counted from 0) of a URL
Segment(u, i) == At(Split(u), i)

HandleOf(p) == IF Truthy(p.url) THEN Segment(p.url[1], 3) ELSE p.username
PrefixOf(p) == IF Truthy(p.url) THEN Segment(p.url[1], 4) ELSE p.hash

UrlSupplied(p) == Truthy(p.url)
PairSupplied(p) == Truthy(p.username) /\ Truthy(p.hash)

FailedInvalid(c) ==
  /\ pc[c] = "failed"
  /\ error[c] = InvalidInputMsg
  /\ fetches[c] = 0
  /\ request[c] = None
  /\ response[c] = None

------------------------------------------------------------------------------
(* C1 *)

\* C1: when the response lists at least two casts, getCast returns the second
\* entry if the first entry's castType is "root-embed" and the first entry
\* otherwise, and the value returned is that list element itself.
C1_SelectsByRootEmbed ==
  \A c \in Calls :
    (/\ promise[c].state # "pending"
     /\ Settled(c)
     /\ HasList(response[c][1])
     /\ Len(ListOf(response[c][1])) >= 2)
    => LET casts == ListOf(response[c][1]) IN
       promise[c] = Fulfilled(Some(IF casts[1].castType = RootEmbed
                                     THEN casts[2] ELSE casts[1]))

C1_Witness ==
  \E c \in Calls :
    /\ Settled(c)
    /\ HasList(response[c][1])
    /\ Len(ListOf(response[c][1])) >= 2
    /\ ListOf(response[c][1])[1].castType = RootEmbed
    /\ ListOf(response[c][1])[2] # ListOf(response[c][1])[1]
    /\ promise[c] = Fulfilled(Some(ListOf(response[c][1])[2]))

------------------------------------------------------------------------------
(* C2 *)

\* C2: a call whose handle or hash prefix is empty or missing after
\* normalization (segments 3 and 4 of a given URL, else the supplied pair)
\* fails with the invalid-input error, and no request is issued for it.
C2_InvalidInputNeverFetches ==
  \A c \in Calls :
    (pc[c] # "idle"
     /\ (~Truthy(HandleOf(props[c])) \/ ~Truthy(PrefixOf(props[c]))))
    => FailedInvalid(c)

C2_Witness ==
  \E c \in Calls :
    /\ FailedInvalid(c)
    /\ UrlSupplied(props[c])
    /\ Truthy(HandleOf(props[c]))
    /\ ~Truthy(PrefixOf(props[c]))

------------------------------------------------------------------------------
(* C3 *)

\* C3 as stated: a call that supplies both forms, or neither form, fails with
\* the invalid-input error and does not proceed to the fetch.
C3_ExactlyOneForm ==
  \A c \in Calls :
    (pc[c] # "idle"
     /\ (UrlSupplied(props[c]) <=> PairSupplied(props[c])))
    => FailedInvalid(c)

\* C3 amended: a call that supplies neither form fails with the invalid-input
\* error without a fetch; a call that supplies both forms is treated as the
\* URL form alone: the pair is ignored, and the call proceeds to the fetch
\* with the URL's segments 3 and 4 exactly when both are non-empty.
C3_NeitherFailsUrlWins ==
  \A c \in Calls :
    pc[c] # "idle" =>
      /\ (~UrlSupplied(props[c]) /\ ~PairSupplied(props[c])) => FailedInvalid(c)
      /\ (UrlSupplied(props[c]) /\ PairSupplied(props[c])) =>
           LET h == Segment(props[c].url[1], 3)
               x == Segment(props[c].url[1], 4)
           IN IF Truthy(h) /\ Truthy(x)
                THEN /\ fetches[c] = 1
                     /\ request[c] = Some([castHashPrefix |-> x,
                                           username |-> h,
                                           limit |-> Limit])
                ELSE FailedInvalid(c)

C3_Witness ==
  \E c \in Calls :
    /\ UrlSupplied(props[c])
    /\ PairSupplied(props[c])
    /\ props[c].username # Segment(props[c].url[1], 3)
    /\ pc[c] = "awaitFetch"
    /\ request[c] # None
    /\ request[c][1].username = Segment(props[c].url[1], 3)

------------------------------------------------------------------------------
(* C4 *)

\* C4: an invocation of getCast issues exactly one fetch: from the moment it
\* is invoked it has issued one, it has issued one when it returns or fails,
\* and a fetch that failed is not issued again.
C4_ExactlyOneFetch ==
  \A c \in Calls :
    /\ fetches[c] <= 1
    /\ pc[c] \in {"awaitFetch", "awaitJson", "awaitGetCast"} => fetches[c] = 1
    /\ promise[c].state # "pending" => fetches[c] = 1

C4_Witness ==
  \E c \in Calls :
    /\ Settled(c)
    /\ response[c][1].net = "reject"
    /\ promise[c].state = "rejected"
    /\ fetches[c] = 1

------------------------------------------------------------------------------
(* C5 *)

\* the network call rejected, or the body is not of the shape
\* { result: { casts: [...] } }
Unusable(r) == ~HasList(r)

\* C5: when the network call rejects or the body cannot be parsed into the
\* expected structure, getCast fails with "Unable to fetch cast." whatever
\* the cause, and the render fails with that error, derives no field and
\* produces no output.
C5_GenericFetchError ==
  \A c \in Calls :
    (Settled(c) /\ Unusable(response[c][1])) =>
      /\ promise[c].state # "pending" => promise[c] = Rejected(FetchErrorMsg)
      /\ pc[c] # "done"
      /\ pc[c] \in {"awaitFetch", "awaitJson", "awaitGetCast", "failed"}
      /\ pc[c] = "failed" => error[c] = FetchErrorMsg
      /\ view[c] = None
      /\ output[c] = None

C5_Witness ==
  \E c \in Calls :
    /\ Settled(c)
    /\ response[c][1].net = "ok"
    /\ Unusable(response[c][1])
    /\ pc[c] = "failed"
    /\ error[c] = FetchErrorMsg

------------------------------------------------------------------------------
(* C6 *)

EmptyList(r) == HasList(r) /\ ListOf(r) = <<>>

LoneWrapper(r) ==
  /\ HasList(r)
  /\ Len(ListOf(r)) = 1
  /\ ListOf(r)[1].castType = RootEmbed

\* C6 as stated: for an empty cast list, or a list whose only entry is a
\* root-embed wrapper, getCast does not return normally with an absent post
\* and the render never produces output.
C6_ResolverFailsOnNoPost ==
  \A c \in Calls :
    (Settled(c) /\ (EmptyList(response[c][1]) \/ LoneWrapper(response[c][1])))
    => /\ promise[c].state # "fulfilled"
       /\ pc[c] # "done"
       /\ output[c] = None

\* C6 amended: for an empty cast list getCast fails with the generic fetch
\* error; for a list whose only entry is a root-embed wrapper getCast returns
\* normally with an absent post and the render then fails on its first use of
\* the post; in both cases no field is derived and no output is produced.
C6_NoPostNoOutput ==
  \A c \in Calls :
    Settled(c) =>
      /\ EmptyList(response[c][1]) =>
           /\ promise[c].state # "pending" =>
                promise[c] = Rejected(FetchErrorMsg)
           /\ pc[c] = "failed" => error[c] = FetchErrorMsg
           /\ pc[c] # "done" /\ view[c] = None /\ output[c] = None
      /\ LoneWrapper(response[c][1]) =>
           /\ promise[c].state # "pending" => promise[c] = Fulfilled(None)
           /\ pc[c] = "failed" => error[c] = TypeError
           /\ pc[c] # "done" /\ view[c] = None /\ output[c] = None

C6_Witness ==
  \E c \in Calls :
    /\ Settled(c)
    /\ LoneWrapper(response[c][1])
    /\ promise[c] = Fulfilled(None)
    /\ pc[c] = "failed"

------------------------------------------------------------------------------
(* C7 *)

\* C7: the derived recast count of a resolved post is combinedRecastCount
\* when that field is present and not 0, and recasts.count otherwise.
C7_RecastCount ==
  \A c \in Calls :
    view[c] # None =>
      LET post == promise[c].value[1] IN
      IF post.combinedRecastCount # None /\ post.combinedRecastCount[1] # 0
        THEN view[c][1].recasts = Some(post.combinedRecastCount[1])
        ELSE /\ post.recasts # None
             /\ view[c][1].recasts = Some(post.recasts[1].count)

C7_Witness ==
  \E c \in Calls :
    /\ view[c] # None
    /\ promise[c].value[1].combinedRecastCount = Some(0)
    /\ promise[c].value[1].recasts = Some([count |-> 7])
    /\ view[c][1].recasts = Some(7)

------------------------------------------------------------------------------
(* C8 *)

\* C8: for a resolved post of the provider's shape, whichever of the
\* optional counters replies, reactions, recasts and watches are present,
\* derivation and rendering complete and the render produces output.
C8_MapperNeverFails ==
  \A c \in Calls :
    (Ended(c) /\ promise[c].state = "fulfilled" /\ promise[c].value # None)
    => pc[c] = "done" /\ output[c] # None

------------------------------------------------------------------------------
(* C9 *)

Failure(m) == [pc |-> "failed", error |-> m, output |-> None]

\* what one render comes to, from its own properties and its own response
OutcomeOf(p, r) ==
  LET g == getCast(r.json) IN
  IF r.net = "reject" THEN Failure(FetchErrorMsg)
  ELSE IF g.state = "rejected" THEN Failure(g.reason)
  ELSE IF g.value = None \/ RecastsThrows(g.value[1]) THEN Failure(TypeError)
  ELSE IF RenderThrows(Derive(g.value[1])) THEN Failure(TypeError)
  ELSE [pc |-> "done", error |-> NoError,
        output |-> Some(Render(Derive(g.value[1])))]

\* C9: in every interleaving of the calls, each call issues its own fetch for
\* its own identifier, derives and renders only after its own fetch and
\* getCast have completed, and ends in the outcome that its own identifier
\* and its own response determine.
C9_RendersIndependent ==
  \A c \in Calls :
    /\ request[c] # None =>
         /\ fetches[c] = 1
         /\ request[c][1].username = HandleOf(props[c])
         /\ request[c][1].castHashPrefix = PrefixOf(props[c])
    /\ (view[c] # None \/ output[c] # None) =>
         Settled(c) /\ promise[c].state = "fulfilled"
    /\ Ended(c) =>
         IF ~Settled(c)
           THEN FailedInvalid(c) /\ InvalidInput(Normalize(props[c]))
           ELSE [pc |-> pc[c], error |-> error[c], output |-> output[c]]
                  = OutcomeOf(props[c], response[c][1])

C9_Witness ==
  \E c, d \in Calls :
    /\ c # d
    /\ pc[c] = "done"
    /\ pc[d] = "done"
    /\ props[c] # props[d]
    /\ output[c] # output[d]

------------------------------------------------------------------------------
(* C10 *)

\* a canonical URL: https://warpcast.com/<handle>/<hash prefix>
IsCanonical(u) ==
  /\ Len(Split(u)) = 5
  /\ SubSeq(Split(u), 1, 3) = SubSeq(Split(WarpcastBase), 1, 3)
  /\ Split(u)[4] # <<>>
  /\ Split(u)[5] # <<>>

\* the link derived from the post names the handle h and a hash that begins
\* with x
LinkMatches(link, h, x) ==
  /\ Segment(link, 3) = Some(h)
  /\ Segment(link, 4) # None
  /\ IsPrefix(x, Segment(link, 4)[1])

\* the response lists the requested post first, after at most one
\* root-embed wrapper
ListsRequestedFirst(casts, h, x) ==
  \E k \in 1..2 :
    /\ k <= Len(casts)
    /\ \A j \in 1..(k - 1) : casts[j].castType = RootEmbed
    /\ casts[k].castType # RootEmbed
    /\ casts[k].author.username = h
    /\ IsPrefix(x, casts[k].hash)

\* C10 as stated: for every canonical URL, the link derived from the
\* resolved post names the URL's handle and a hash that the URL's hash
\* prefix is a prefix of.
C10_LinkRoundTrip ==
  \A c \in Calls :
    (view[c] # None /\ UrlSupplied(props[c]) /\ IsCanonical(props[c].url[1]))
    => LinkMatches(view[c][1].warpcastUrl,
                   Split(props[c].url[1])[4], Split(props[c].url[1])[5])

\* C10 amended: the same, for responses that list the requested post (its
\* author is the URL's handle, its hash begins with the URL's prefix) first,
\* after at most one root-embed wrapper.
C10_LinkRoundTripOfRequested ==
  \A c \in Calls :
    (/\ view[c] # None
     /\ UrlSupplied(props[c])
     /\ IsCanonical(props[c].url[1])
     /\ ListsRequestedFirst(ListOf(response[c][1]),
                            Split(props[c].url[1])[4],
                            Split(props[c].url[1])[5]))
    => LinkMatches(view[c][1].warpcastUrl,
                   Split(props[c].url[1])[4], Split(props[c].url[1])[5])

C10_Witness ==
  \E c \in Calls :
    /\ view[c] # None
    /\ UrlSupplied(props[c])
    /\ IsCanonical(props[c].url[1])
    /\ ListOf(response[c][1])[1].castType = RootEmbed
    /\ ListOf(response[c][1])[1].author.username # Split(props[c].url[1])[4]
    /\ ListsRequestedFirst(ListOf(response[c][1]),
                           Split(props[c].url[1])[4],
                           Split(props[c].url[1])[5])
    /\ view[c][1].warpcastUrl = props[c].url[1] \o <<"2">>

====
